---- MODULE Spec2Model ----
(***************************************************************************)
(* Model of the uart_16550 driver: the generic protocol engine             *)
(* (uart_16550.rs), the memory-mapped port (mmio.rs) and the two           *)
(* port-mapped ports (port.rs, x86_64.rs), at the granularity of one       *)
(* hardware register access per step.  The hardware is the environment:    *)
(* every register read returns a value chosen by it.                       *)
(***************************************************************************)
EXTENDS Integers, Naturals, Sequences, FiniteSets, TLC

\* ------------------------------------------------------------------ bounds
\* Largest number of "not ready" line-status observations followed in one call.
MaxPolls == 2

\* Width in bits of usize on the modelled target (Rust allows 16 and more).
UsizeBits == 16

\* Longest string handed to write_str, in bytes.
MaxStr == 2

\* Transmit calls are started while fewer than MaxTx bytes have been sent.
MaxTx == 2

\* Bytes the receiver hardware delivers in all.
MaxRx == 3

\* Bytes the receiver hardware holds at once (the FIFO init() enables).
RxDepth == 2

\* Transmit calls made by the second context sharing the device.
MaxOther == 1

\* ------------------------------------------------------------- byte helpers
U8 == 0 .. 255

RECURSIVE BitAnd(_, _)
\* Bitwise AND of two naturals (the & of u8 values).
BitAnd(a, b) ==
    IF a = 0 \/ b = 0 THEN 0
    ELSE (IF (a % 2 = 1) /\ (b % 2 = 1) THEN 1 ELSE 0) + 2 * BitAnd(a \div 2, b \div 2)

RECURSIVE BitOr(_, _)
\* Bitwise OR of two naturals (the | of u8 values).
BitOr(a, b) ==
    IF a = 0 THEN b
    ELSE IF b = 0 THEN a
    ELSE (IF (a % 2 = 1) \/ (b % 2 = 1) THEN 1 ELSE 0) + 2 * BitOr(a \div 2, b \div 2)

\* ------------------------------------------------------- LineStsFlags (lib.rs)
INPUT_FULL == 1
OVERRUN_ERROR == 2
PARITY_ERROR == 4
FRAMING_ERROR == 8
BREAK_RECEIVED == 16
OUTPUT_EMPTY == 32
OUTPUT_EMPTY_IDLE == 64
ERROR_DATA_FIFO == 128

\* Union of all the bits LineStsFlags declares.
LineStsFlags_all ==
    BitOr(INPUT_FULL, BitOr(OVERRUN_ERROR, BitOr(PARITY_ERROR, BitOr(FRAMING_ERROR,
    BitOr(BREAK_RECEIVED, BitOr(OUTPUT_EMPTY, BitOr(OUTPUT_EMPTY_IDLE, ERROR_DATA_FIFO)))))))

\* LineStsFlags::from_bits_truncate: keep the declared bits, drop the others.
from_bits_truncate(bits) == BitAnd(bits, LineStsFlags_all)

\* LineStsFlags::contains: every bit of other is set in flags.
contains(flags, other) == BitAnd(flags, other) = other

\* --------------------------------------------------------------- registers
RegNames == {"data", "int_en", "fifo_ctrl", "line_ctrl", "modem_ctrl", "line_sts"}

\* One register write / read as recorded in the access trace.
W(reg, val) == [k |-> "w", reg |-> reg, val |-> val]
R(reg, val) == [k |-> "r", reg |-> reg, val |-> val]

Variants == {"generic", "mmio", "port", "x86_64"}

\* The writes of an access trace, in order.
Writes(t) == SelectSeq(t, LAMBDA e : e.k = "w")

\* The reads of register reg in an access trace, in order.
ReadsOf(t, reg) == SelectSeq(t, LAMBDA e : e.k = "r" /\ e.reg = reg)

\* Bit n of byte v is set.
Bit(v, n) == (v \div (2 ^ n)) % 2 = 1

\* ------------------------------------------------------------------- init
\* The register writes of each init(), in program order.
\* Variant: interrupts are enabled before the latch is closed.
Uart16550Registers_init_latch_closed_last ==
    << W("int_en", 0), W("line_ctrl", 128), W("data", 3), W("int_en", 0),
       W("fifo_ctrl", 199), W("modem_ctrl", 11), W("int_en", 1), W("line_ctrl", 3) >>

Uart16550Registers_init ==
    << W("int_en", 0), W("line_ctrl", 128), W("data", 3), W("int_en", 0),
       W("line_ctrl", 3), W("fifo_ctrl", 199), W("modem_ctrl", 11), W("int_en", 1) >>

MmioSerialPort_init ==
    << W("int_en", 0), W("line_ctrl", 128), W("data", 3), W("int_en", 0),
       W("line_ctrl", 3), W("fifo_ctrl", 199), W("modem_ctrl", 11), W("int_en", 1) >>

\* Variant: the divisor low byte is written before the latch is opened.
port_SerialPort_init_latch_late ==
    << W("int_en", 0), W("data", 3), W("line_ctrl", 128), W("int_en", 0),
       W("line_ctrl", 3), W("fifo_ctrl", 199), W("modem_ctrl", 11), W("int_en", 1) >>

port_SerialPort_init ==
    << W("int_en", 0), W("line_ctrl", 128), W("data", 3), W("int_en", 0),
       W("line_ctrl", 3), W("fifo_ctrl", 199), W("modem_ctrl", 11), W("int_en", 1) >>

x86_64_SerialPort_init ==
    << W("int_en", 0), W("line_ctrl", 128), W("data", 3), W("int_en", 0),
       W("line_ctrl", 3), W("fifo_ctrl", 199), W("modem_ctrl", 11), W("int_en", 1) >>

init(v) ==
    CASE v = "generic" -> Uart16550Registers_init
      [] v = "mmio"    -> MmioSerialPort_init
      [] v = "port"    -> port_SerialPort_init
      [] v = "x86_64"  -> x86_64_SerialPort_init

\* ------------------------------------------------------------------- send
\* The match of each send(): the raw bytes handed on, in order.
Uart16550Registers_send(data) ==
    IF data = 8 \/ data = 127 THEN << 8, 32, 8 >> ELSE << data >>

MmioSerialPort_send(data) ==
    IF data = 8 \/ data = 127 THEN << 8, 32, 8 >> ELSE << data >>

\* Variant: line feed is handed on alone, as in the other implementations.
port_SerialPort_send_lf_plain(data) ==
    IF data = 8 \/ data = 127 THEN << 8, 32, 8 >> ELSE << data >>

\* Variant: carriage return is expanded like line feed.
port_SerialPort_send_cr(data) ==
    IF data = 8 \/ data = 127 THEN << 8, 32, 8 >>
    ELSE IF data = 10 \/ data = 13 THEN << 13, 10 >>
    ELSE << data >>

port_SerialPort_send(data) ==
    IF data = 8 \/ data = 127 THEN << 8, 32, 8 >>
    ELSE IF data = 10 THEN << 13, 10 >>
    ELSE << data >>

\* Variant: delete (0x7F) is not matched by the first arm.
x86_64_SerialPort_send_no_del(data) ==
    IF data = 8 THEN << 8, 32, 8 >> ELSE << data >>

x86_64_SerialPort_send(data) ==
    IF data = 8 \/ data = 127 THEN << 8, 32, 8 >> ELSE << data >>

send(v, data) ==
    CASE v = "generic" -> Uart16550Registers_send(data)
      [] v = "mmio"    -> MmioSerialPort_send(data)
      [] v = "port"    -> port_SerialPort_send(data)
      [] v = "x86_64"  -> x86_64_SerialPort_send(data)

\* -------------------------------------------------------------- line_sts
\* line_sts(): decode the byte just read from the line-status register.
Uart16550Registers_line_sts(raw) == from_bits_truncate(raw)
MmioSerialPort_line_sts(raw) == from_bits_truncate(raw)
port_SerialPort_line_sts(raw) == from_bits_truncate(raw)
x86_64_SerialPort_line_sts(raw) == from_bits_truncate(raw)

\* ------------------------------------------------------- blocking loops
\* Variant: the loop condition is negated.
wait_for_negated(cond) == IF cond THEN "spin" ELSE "exit"

\* wait_for!(cond): leave the loop when cond holds, spin otherwise.
wait_for(cond) == IF cond THEN "exit" ELSE "spin"

\* retry_until_ok!(expr): leave the loop with the value when expr is Ok,
\* evaluate expr again otherwise.
retry_until_ok(res) == IF res = "Ok" THEN "exit" ELSE "spin"

\* ---------------------------------------------------------- try_send_raw
\* try_send_raw(data), given the byte raw its line_sts() read returned:
\* the accesses that follow the read, and the result.
\* Variant: the transmitter-idle bit is tested instead of output-empty.
Uart16550Registers_try_send_raw_idle(raw, data) ==
    IF contains(Uart16550Registers_line_sts(raw), OUTPUT_EMPTY_IDLE)
    THEN [acc |-> << W("data", data) >>, res |-> "Ok"]
    ELSE [acc |-> << >>, res |-> "WouldBlock"]

Uart16550Registers_try_send_raw(raw, data) ==
    IF contains(Uart16550Registers_line_sts(raw), OUTPUT_EMPTY)
    THEN [acc |-> << W("data", data) >>, res |-> "Ok"]
    ELSE [acc |-> << >>, res |-> "WouldBlock"]

\* Variant: the byte is written without looking at the line status.
MmioSerialPort_try_send_raw_unchecked(raw, data) ==
    [acc |-> << W("data", data) >>, res |-> "Ok"]

\* Variant: the byte is written whatever the line status shows.
MmioSerialPort_try_send_raw_blind(raw, data) ==
    IF contains(MmioSerialPort_line_sts(raw), OUTPUT_EMPTY)
    THEN [acc |-> << W("data", data) >>, res |-> "Ok"]
    ELSE [acc |-> << W("data", data) >>, res |-> "WouldBlock"]

MmioSerialPort_try_send_raw(raw, data) ==
    IF contains(MmioSerialPort_line_sts(raw), OUTPUT_EMPTY)
    THEN [acc |-> << W("data", data) >>, res |-> "Ok"]
    ELSE [acc |-> << >>, res |-> "WouldBlock"]

\* Variant: the receiver's bit is tested instead of output-empty.
port_SerialPort_try_send_raw_input_full(raw, data) ==
    IF contains(port_SerialPort_line_sts(raw), INPUT_FULL)
    THEN [acc |-> << W("data", data) >>, res |-> "Ok"]
    ELSE [acc |-> << >>, res |-> "WouldBlock"]

\* Variant: the byte goes to the register at offset 1.
port_SerialPort_try_send_raw_int_en(raw, data) ==
    IF contains(port_SerialPort_line_sts(raw), OUTPUT_EMPTY)
    THEN [acc |-> << W("int_en", data) >>, res |-> "Ok"]
    ELSE [acc |-> << >>, res |-> "WouldBlock"]

port_SerialPort_try_send_raw(raw, data) ==
    IF contains(port_SerialPort_line_sts(raw), OUTPUT_EMPTY)
    THEN [acc |-> << W("data", data) >>, res |-> "Ok"]
    ELSE [acc |-> << >>, res |-> "WouldBlock"]

\* x86_64.rs has no try_send_raw: each arm of send waits, then writes.
x86_64_SerialPort_send_byte(raw, data) ==
    IF wait_for(contains(x86_64_SerialPort_line_sts(raw), OUTPUT_EMPTY)) = "exit"
    THEN [acc |-> << W("data", data) >>, res |-> "Ok"]
    ELSE [acc |-> << >>, res |-> "WouldBlock"]

try_send_raw(v, raw, data) ==
    CASE v = "generic" -> Uart16550Registers_try_send_raw(raw, data)
      [] v = "mmio"    -> MmioSerialPort_try_send_raw(raw, data)
      [] v = "port"    -> port_SerialPort_try_send_raw(raw, data)
      [] v = "x86_64"  -> x86_64_SerialPort_send_byte(raw, data)

\* ----------------------------------------------------------- try_receive
\* try_receive(), given the byte raw its line_sts() read returned: whether
\* the data register is read next, and the result when it is not.
\* Variant: the transmitter's bit is tested instead of input-full.
Uart16550Registers_try_receive_output_empty(raw) ==
    IF contains(Uart16550Registers_line_sts(raw), OUTPUT_EMPTY)
    THEN [read |-> TRUE, res |-> "Ok"]
    ELSE [read |-> FALSE, res |-> "WouldBlock"]

Uart16550Registers_try_receive(raw) ==
    IF contains(Uart16550Registers_line_sts(raw), INPUT_FULL)
    THEN [read |-> TRUE, res |-> "Ok"]
    ELSE [read |-> FALSE, res |-> "WouldBlock"]

\* Variant: the data register is read on the would-block path too.
MmioSerialPort_try_receive_eager(raw) ==
    IF contains(MmioSerialPort_line_sts(raw), INPUT_FULL)
    THEN [read |-> TRUE, res |-> "Ok"]
    ELSE [read |-> TRUE, res |-> "WouldBlock"]

MmioSerialPort_try_receive(raw) ==
    IF contains(MmioSerialPort_line_sts(raw), INPUT_FULL)
    THEN [read |-> TRUE, res |-> "Ok"]
    ELSE [read |-> FALSE, res |-> "WouldBlock"]

\* Variant: a receive error reported by the line status makes the call fail.
port_SerialPort_try_receive_checked(raw) ==
    IF contains(port_SerialPort_line_sts(raw), INPUT_FULL)
       /\ ~contains(port_SerialPort_line_sts(raw), ERROR_DATA_FIFO)
    THEN [read |-> TRUE, res |-> "Ok"]
    ELSE [read |-> FALSE, res |-> "WouldBlock"]

port_SerialPort_try_receive(raw) ==
    IF contains(port_SerialPort_line_sts(raw), INPUT_FULL)
    THEN [read |-> TRUE, res |-> "Ok"]
    ELSE [read |-> FALSE, res |-> "WouldBlock"]

\* x86_64.rs receive: wait, then read the data register.
x86_64_SerialPort_receive(raw) ==
    IF wait_for(contains(x86_64_SerialPort_line_sts(raw), INPUT_FULL)) = "exit"
    THEN [read |-> TRUE, res |-> "Ok"]
    ELSE [read |-> FALSE, res |-> "WouldBlock"]

try_receive(v, raw) ==
    CASE v = "generic" -> Uart16550Registers_try_receive(raw)
      [] v = "mmio"    -> MmioSerialPort_try_receive(raw)
      [] v = "port"    -> port_SerialPort_try_receive(raw)
      [] v = "x86_64"  -> x86_64_SerialPort_receive(raw)

\* ------------------------------------------------------ send_raw, receive
\* The blocking calls: what the loop does with one try's result.
\* Variant: one attempt only, whatever its result.
Uart16550_send_raw_once(res) == "exit"

Uart16550_send_raw(res) == retry_until_ok(res)
MmioSerialPort_send_raw(res) == retry_until_ok(res)
port_SerialPort_send_raw(res) == retry_until_ok(res)

send_raw(v, res) ==
    CASE v = "generic" -> Uart16550_send_raw(res)
      [] v = "mmio"    -> MmioSerialPort_send_raw(res)
      [] v = "port"    -> port_SerialPort_send_raw(res)
      [] v = "x86_64"  -> IF res = "Ok" THEN "exit" ELSE "spin"

Uart16550_receive(res) == retry_until_ok(res)
MmioSerialPort_receive(res) == retry_until_ok(res)
\* Variant: one attempt only, whatever its result.
port_SerialPort_receive_once(res) == "exit"

port_SerialPort_receive(res) == retry_until_ok(res)

receive(v, res) ==
    CASE v = "generic" -> Uart16550_receive(res)
      [] v = "mmio"    -> MmioSerialPort_receive(res)
      [] v = "port"    -> port_SerialPort_receive(res)
      [] v = "x86_64"  -> IF res = "Ok" THEN "exit" ELSE "spin"

\* ------------------------------------------- x86_64.rs as a function
\* x86_64.rs send(), after its match: the accesses it makes for the raw
\* bytes still to write when its line-status reads return the values of
\* reads, one after the other, and whether it has returned by then.
RECURSIVE x86_64_SerialPort_send_run(_, _)
x86_64_SerialPort_send_run(bytes, reads) ==
    IF bytes = << >> THEN [acc |-> << >>, done |-> TRUE]
    ELSE IF reads = << >> THEN [acc |-> << >>, done |-> FALSE]
    ELSE LET t == x86_64_SerialPort_send_byte(Head(reads), Head(bytes))
             r == x86_64_SerialPort_send_run(
                      IF t.res = "Ok" THEN Tail(bytes) ELSE bytes, Tail(reads))
         IN [acc |-> << R("line_sts", Head(reads)) >> \o t.acc \o r.acc,
             done |-> r.done]

\* x86_64.rs receive(): its accesses when its reads (of line-status, then of
\* data) return the values of reads, whether it has returned by then, and
\* the byte it returns.
RECURSIVE x86_64_SerialPort_receive_run(_)
x86_64_SerialPort_receive_run(reads) ==
    IF reads = << >> THEN [acc |-> << >>, done |-> FALSE, val |-> -1]
    ELSE IF x86_64_SerialPort_receive(Head(reads)).read
    THEN IF Len(reads) >= 2
         THEN [acc |-> << R("line_sts", reads[1]), R("data", reads[2]) >>,
               done |-> TRUE, val |-> reads[2]]
         ELSE [acc |-> << R("line_sts", reads[1]) >>, done |-> FALSE, val |-> -1]
    ELSE LET r == x86_64_SerialPort_receive_run(Tail(reads))
         IN [acc |-> << R("line_sts", Head(reads)) >> \o r.acc,
             done |-> r.done, val |-> r.val]

\* Variant: the write is made before the wait.
x86_64_SerialPort_run_write_first(o, b, reads) ==
    IF o = "receive"
    THEN LET r == x86_64_SerialPort_receive_run(reads)
         IN [acc |-> r.acc, done |-> r.done,
             res |-> IF r.done THEN [tag |-> "u8", val |-> r.val]
                     ELSE [tag |-> "none", val |-> -1]]
    ELSE LET r == x86_64_SerialPort_send_run(
                      IF o = "send" THEN x86_64_SerialPort_send(b) ELSE << b >>,
                      reads)
         IN [acc |-> << W("data", b) >> \o r.acc, done |-> r.done,
             res |-> IF r.done THEN [tag |-> "unit", val |-> -1]
                     ELSE [tag |-> "none", val |-> -1]]

\* What x86_64.rs does for the call o(b) on the read values reads; for
\* send_raw, which x86_64.rs does not have, the wait and write of one arm.
x86_64_SerialPort_run(o, b, reads) ==
    IF o = "receive"
    THEN LET r == x86_64_SerialPort_receive_run(reads)
         IN [acc |-> r.acc, done |-> r.done,
             res |-> IF r.done THEN [tag |-> "u8", val |-> r.val]
                     ELSE [tag |-> "none", val |-> -1]]
    ELSE LET r == x86_64_SerialPort_send_run(
                      IF o = "send" THEN x86_64_SerialPort_send(b) ELSE << b >>,
                      reads)
         IN [acc |-> r.acc, done |-> r.done,
             res |-> IF r.done THEN [tag |-> "unit", val |-> -1]
                     ELSE [tag |-> "none", val |-> -1]]

\* ------------------------------------------- loopback_test, try_create
\* port.rs loopback_test(): the writes made before the data register is read
\* back.
port_SerialPort_loopback_test_setup ==
    << W("int_en", 0), W("modem_ctrl", 30), W("data", 174) >>

\* Variant: the byte read back is not compared.
port_SerialPort_loopback_test_any(loopback) ==
    [acc |-> << W("modem_ctrl", 11), W("int_en", 1) >>, res |-> "Ok"]

\* loopback_test(), given the byte read back from the data register: the
\* accesses that follow the read, and the result.
port_SerialPort_loopback_test(loopback) ==
    IF loopback # 174
    THEN [acc |-> << >>, res |-> "Err"]
    ELSE [acc |-> << W("modem_ctrl", 11), W("int_en", 1) >>, res |-> "Ok"]

\* Variant: the result of the loopback test is dropped.
port_SerialPort_try_create_unchecked(test) == "Ok"

\* try_create(): port.loopback_test()?; Ok(port), given the test's result.
port_SerialPort_try_create(test) == IF test = "Err" THEN "Err" ELSE "Ok"

\* ------------------------------------------------------------- write_str
\* fmt::Write::write_str(s): the bytes the loop calls send() with, in order,
\* and the value returned after the loop.
Uart16550Registers_write_str(s) == [calls |-> s, res |-> "Ok"]

\* Variant: the loop skips the first byte of the string.
MmioSerialPort_write_str_skip(s) ==
    [calls |-> IF s = << >> THEN s ELSE Tail(s), res |-> "Ok"]

MmioSerialPort_write_str(s) == [calls |-> s, res |-> "Ok"]
port_SerialPort_write_str(s) == [calls |-> s, res |-> "Ok"]
x86_64_SerialPort_write_str(s) == [calls |-> s, res |-> "Ok"]

write_str(v, s) ==
    CASE v = "generic" -> Uart16550Registers_write_str(s)
      [] v = "mmio"    -> MmioSerialPort_write_str(s)
      [] v = "port"    -> port_SerialPort_write_str(s)
      [] v = "x86_64"  -> x86_64_SerialPort_write_str(s)

\* ------------------------------------------------------------ environment
\* Values the hardware may present in the line-status register: both
\* readiness bits in every combination, with and without error bits.
LsrValues == {0, 1, 32, 158, 255}

\* Bytes send() is called with: every u8.
SendBytes == U8

\* Bytes passed to send_raw / try_send_raw and delivered by the hardware; they
\* are carried through without inspection, so a sample stands for the rest.
Bytes == {0, 8, 10, 13, 32, 65, 127, 174, 255}

\* A smaller sample, one byte of each kind send() tells apart (backspace,
\* line feed, any other): the bytes of the calls where the bytes written
\* are followed through the hardware, and those the receiver delivers.
HwBytes == {8, 10, 65}

\* Operations of each variant's public interface.
TxOps == {"send", "send_raw", "try_send_raw"}
RxOps == {"receive", "try_receive"}
Blocking == {"send", "send_raw", "receive"}
HasOp(v, o) == v # "x86_64" \/ o \in {"init", "send", "receive", "write_str"}

\* Bytes of the strings handed to write_str: one plain byte and one of each
\* kind send() rewrites (backspace everywhere, line feed in port.rs).
StrBytes == {8, 10, 65}

\* The strings handed to write_str.
Strings == UNION { [1 .. n -> StrBytes] : n \in 0 .. MaxStr }

\* ------------------------------------------------------------------ state
VARIABLES
    variant,    \* which implementation this run exercises
    pc,         \* position of the call in progress
    op,         \* the operation called ("none" between calls)
    arg,        \* its byte argument (-1 when it has none)
    pending,    \* raw bytes the call has still to write
    trace,      \* register accesses made by the call so far, in order
    polls,      \* "not ready" line-status observations made by the call
    seen,       \* the line-status byte read last (-1 before the first read)
    result,     \* what the call returned
    dll,        \* DivisorLatchFlags.dll, as its bits
    dlm,        \* DivisorLatchFlags.dlm, as its bits
    valid,      \* what validate() returned
    dpc,        \* "none", "new" (pair constructed), "validated", "read"
    dctor,      \* the constructor that made the pair ("none" before)
    dargs,      \* the arguments new() was given (<< >> for the others)
    dout,       \* what split(), dll() and dlm() returned
    akind,      \* the constructor called
    abuild,     \* "debug" (overflow checks on) or "release" (wrapping)
    abase,      \* its base argument
    astride,    \* its stride argument (1 when it has none)
    addrs,      \* the address of each register of the constructed port
    astatus,    \* "ok", "panic" or "ub"
    apc,        \* "args" before the constructor ran, "constructed" after
    outer,      \* the call that made the call in progress ("none": the user)
    str,        \* the string write_str was called with
    todo,       \* its bytes the loop of write_str has still to visit
    sends,      \* the bytes send() was called with by write_str, in order
    wtrace,     \* data writes of the sends of write_str that have returned
    thr,        \* hardware: the byte held for transmission (<< >>: output empty)
    wire,       \* hardware: the bytes transmitted so far
    log,        \* the raw bytes of the transmit calls that succeeded so far
    rxq,        \* hardware: received bytes not yet read (<< >>: input not full)
    produced,   \* hardware: all bytes delivered to the receiver so far
    returned,   \* the bytes the receive calls returned so far
    regs,       \* hardware: the contents of the registers behind the offsets
    inited,     \* init() has returned at least once
    other,      \* a second context using the same registers: its call
    lost        \* hardware: bytes overwritten in the holding register

uartVars == << variant, pc, op, arg, pending, trace, polls, seen, result >>
divVars == << dll, dlm, valid, dpc, dctor, dargs, dout >>
addrVars == << akind, abuild, abase, astride, addrs, astatus, apc >>
strVars == << outer, str, todo, sends, wtrace >>
hwVars == << thr, wire, log, rxq, produced, returned >>
regVars == << regs, inited >>
ctxVars == << other, lost >>
vars == << uartVars, divVars, addrVars, strVars, hwVars, regVars, ctxVars >>

NoResult == [tag |-> "none", val |-> -1]

\* No call in progress on the port.
UartIdle ==
    /\ pc = "idle"
    /\ op = "none"
    /\ arg = -1
    /\ pending = << >>
    /\ trace = << >>
    /\ polls = 0
    /\ seen = -1
    /\ result = NoResult

\* No divisor-latch pair under construction.
DivIdle ==
    /\ dll = 0
    /\ dlm = 0
    /\ valid = FALSE
    /\ dpc = "none"
    /\ dctor = "none"
    /\ dargs = << >>
    /\ dout = [split |-> << >>, dll |-> -1, dlm |-> -1]

\* No constructor call under consideration.
AddrIdle ==
    /\ akind = "none"
    /\ abuild = "release"
    /\ abase = 0
    /\ astride = 1
    /\ addrs = [r \in RegNames |-> -1]
    /\ astatus = "ok"
    /\ apc = "none"

\* No write_str in progress.
StrIdle ==
    /\ outer = "none"
    /\ str = << >>
    /\ todo = << >>
    /\ sends = << >>
    /\ wtrace = << >>

\* The hardware at rest: nothing to transmit, nothing received.
HwIdle ==
    /\ thr = << >>
    /\ wire = << >>
    /\ log = << >>
    /\ rxq = << >>
    /\ produced = << >>
    /\ returned = << >>

\* The registers as a reset leaves them; no init() yet.
RegIdle ==
    /\ regs = [ier |-> 0, lcr |-> 0, fcr |-> 0, mcr |-> 0, dll |-> 0, dlm |-> 0]
    /\ inited = FALSE

\* The second context has made no call.
CtxIdle ==
    /\ other = [pc |-> "idle", op |-> "none", arg |-> -1, seen |-> -1, calls |-> 0]
    /\ lost = << >>

Init ==
    /\ variant \in Variants
    /\ UartIdle
    /\ DivIdle
    /\ AddrIdle
    /\ StrIdle
    /\ HwIdle
    /\ RegIdle
    /\ CtxIdle

\* ------------------------------------------------------------------ calls
Begin(o, a, p, at) ==
    /\ op' = o
    /\ arg' = a
    /\ pending' = p
    /\ pc' = at
    /\ trace' = << >>
    /\ polls' = 0
    /\ seen' = -1
    /\ result' = NoResult
    /\ UNCHANGED << variant, divVars, addrVars, strVars, hwVars, regVars, ctxVars >>

CallInit ==
    /\ pc = "idle"
    /\ HasOp(variant, "init")
    /\ Begin("init", -1, << >>, "init")

CallSend ==
    /\ pc = "idle"
    /\ HasOp(variant, "send")
    /\ \E b \in SendBytes : Begin("send", b, send(variant, b), "line_sts")

\* send(b) for the sample bytes only (used where the full range is not needed).
CallSendSome ==
    /\ pc = "idle"
    /\ HasOp(variant, "send")
    /\ \E b \in HwBytes : Begin("send", b, send(variant, b), "line_sts")

CallSendRaw ==
    /\ pc = "idle"
    /\ HasOp(variant, "send_raw")
    /\ \E b \in Bytes : Begin("send_raw", b, << b >>, "line_sts")

CallTrySendRaw ==
    /\ pc = "idle"
    /\ HasOp(variant, "try_send_raw")
    /\ \E b \in Bytes : Begin("try_send_raw", b, << b >>, "line_sts")

CallReceive ==
    /\ pc = "idle"
    /\ HasOp(variant, "receive")
    /\ Begin("receive", -1, << >>, "line_sts")

CallTryReceive ==
    /\ pc = "idle"
    /\ HasOp(variant, "try_receive")
    /\ Begin("try_receive", -1, << >>, "line_sts")

\* init(): the next write of the sequence, as far as the driver is
\* concerned.
InitStepUart ==
    /\ pc = "init"
    /\ LET i == Len(trace) + 1
       IN /\ trace' = Append(trace, init(variant)[i])
          /\ pc' = IF i = Len(init(variant)) THEN "done" ELSE "init"
          /\ result' = IF i = Len(init(variant)) THEN [tag |-> "unit", val |-> -1]
                       ELSE result
    /\ UNCHANGED << variant, op, arg, pending, polls, seen >>

\* The write, with the hardware left out of the picture.
InitStep ==
    /\ InitStepUart
    /\ UNCHANGED << divVars, addrVars, strVars, hwVars, regVars, ctxVars >>

\* One raw byte has been dealt with: go on to the next one, or return.
AfterRaw(rest) ==
    /\ pending' = rest
    /\ pc' = IF rest = << >> THEN "done" ELSE "line_sts"
    /\ result' = IF rest = << >> THEN [tag |-> "unit", val |-> -1] ELSE result

\* line_sts() inside a transmit call, and the branch taken on its value, as
\* far as the driver is concerned.
TxLineStsUart ==
    /\ pc = "line_sts"
    /\ op \in TxOps
    /\ \E raw \in LsrValues :
         LET t == try_send_raw(variant, raw, Head(pending))
         IN /\ seen' = raw
            /\ IF t.res = "Ok"
               THEN /\ trace' = Append(trace, R("line_sts", raw))
                    /\ pc' = "data"
                    /\ UNCHANGED << polls, result, pending >>
               ELSE /\ trace' = Append(trace, R("line_sts", raw)) \o t.acc
                    /\ IF op \notin Blocking
                       THEN /\ pc' = "done"
                            /\ result' = [tag |-> "Err", val |-> -1]
                            /\ UNCHANGED << polls, pending >>
                       ELSE IF send_raw(variant, t.res) = "spin"
                       THEN /\ polls < MaxPolls
                            /\ polls' = polls + 1
                            /\ pc' = "line_sts"
                            /\ UNCHANGED << result, pending >>
                       ELSE /\ AfterRaw(Tail(pending))
                            /\ UNCHANGED polls
    /\ UNCHANGED << variant, op, arg >>

\* The read, with the hardware left out of the picture.
TxLineSts ==
    /\ TxLineStsUart
    /\ UNCHANGED << divVars, addrVars, strVars, hwVars, regVars, ctxVars >>

\* The data-register write that follows a "ready" observation, as far as
\* the driver is concerned.
TxDataUart ==
    /\ pc = "data"
    /\ op \in TxOps
    /\ LET t == try_send_raw(variant, seen, Head(pending))
       IN /\ trace' = trace \o t.acc
          /\ IF op \notin Blocking
             THEN /\ pc' = "done"
                  /\ result' = [tag |-> t.res, val |-> -1]
                  /\ UNCHANGED pending
             ELSE IF send_raw(variant, t.res) = "exit"
             THEN AfterRaw(Tail(pending))
             ELSE /\ pc' = "line_sts"
                  /\ UNCHANGED << result, pending >>
    /\ UNCHANGED << variant, op, arg, polls, seen >>

\* The write, with the hardware left out of the picture.
TxData ==
    /\ TxDataUart
    /\ UNCHANGED << divVars, addrVars, strVars, hwVars, regVars, ctxVars >>

\* line_sts() inside a receive call, and the branch taken on its value, as
\* far as the driver is concerned.
RxLineStsUart ==
    /\ pc = "line_sts"
    /\ op \in RxOps
    /\ \E raw \in LsrValues :
         LET t == try_receive(variant, raw)
         IN /\ trace' = Append(trace, R("line_sts", raw))
            /\ seen' = raw
            /\ IF t.read
               THEN /\ pc' = "data"
                    /\ UNCHANGED << polls, result >>
               ELSE IF op \notin Blocking
               THEN /\ pc' = "done"
                    /\ result' = [tag |-> "Err", val |-> -1]
                    /\ UNCHANGED polls
               ELSE IF receive(variant, t.res) = "spin"
               THEN /\ polls < MaxPolls
                    /\ polls' = polls + 1
                    /\ pc' = "line_sts"
                    /\ UNCHANGED result
               ELSE /\ pc' = "done"
                    /\ result' = [tag |-> "u8", val |-> -1]
                    /\ UNCHANGED polls
    /\ UNCHANGED << variant, op, arg, pending >>

\* The read, with the hardware left out of the picture.
RxLineSts ==
    /\ RxLineStsUart
    /\ UNCHANGED << divVars, addrVars, strVars, hwVars, regVars, ctxVars >>

\* The data-register read that follows a "ready" observation, as far as the
\* driver is concerned.
RxDataUart ==
    /\ pc = "data"
    /\ op \in RxOps
    /\ \E d \in Bytes :
         /\ trace' = Append(trace, R("data", d))
         /\ IF op \notin Blocking
            THEN /\ pc' = "done"
                 /\ result' = [tag |-> try_receive(variant, seen).res, val |-> d]
            ELSE IF receive(variant, try_receive(variant, seen).res) = "exit"
            THEN /\ pc' = "done"
                 /\ result' = [tag |-> "u8", val |-> d]
            ELSE /\ pc' = "line_sts"
                 /\ UNCHANGED result
    /\ UNCHANGED << variant, op, arg, pending, polls, seen >>

\* The read, with the hardware left out of the picture.
RxData ==
    /\ RxDataUart
    /\ UNCHANGED << divVars, addrVars, strVars, hwVars, regVars, ctxVars >>

\* ------------------------------------------- loopback_test, try_create
CallLoopbackTest ==
    /\ pc = "idle"
    /\ variant = "port"
    /\ Begin("loopback_test", -1, << >>, "loopback")

CallTryCreate ==
    /\ pc = "idle"
    /\ variant = "port"
    /\ Begin("try_create", -1, << >>, "create")

\* try_create(): port.init(), the next write of the sequence.
TryCreateInit ==
    /\ pc = "create"
    /\ LET i == Len(trace) + 1
       IN /\ trace' = Append(trace, init(variant)[i])
          /\ pc' = IF i = Len(init(variant)) THEN "loopback" ELSE "create"
    /\ UNCHANGED << variant, op, arg, pending, polls, seen, result,
                    divVars, addrVars, strVars, hwVars, regVars, ctxVars >>

\* Accesses made by the loopback test in progress.
LoopbackDone ==
    IF op = "try_create" THEN Len(trace) - Len(init(variant)) ELSE Len(trace)

\* loopback_test(): the next write before the read-back.
LoopbackSetup ==
    /\ pc = "loopback"
    /\ LET i == LoopbackDone + 1
       IN /\ trace' = Append(trace, port_SerialPort_loopback_test_setup[i])
          /\ pc' = IF i = Len(port_SerialPort_loopback_test_setup)
                   THEN "read_back" ELSE "loopback"
    /\ UNCHANGED << variant, op, arg, pending, polls, seen, result,
                    divVars, addrVars, strVars, hwVars, regVars, ctxVars >>

\* What the call in progress returns for the result of its loopback test.
LoopbackResult(test) ==
    [tag |-> IF op = "try_create" THEN port_SerialPort_try_create(test) ELSE test,
     val |-> -1]

\* loopback_test(): the read-back of the data register and its comparison.
LoopbackRead ==
    /\ pc = "read_back"
    /\ \E loopback \in Bytes :
         LET t == port_SerialPort_loopback_test(loopback)
         IN /\ trace' = Append(trace, R("data", loopback))
            /\ IF t.res = "Err"
               THEN /\ pc' = "done"
                    /\ result' = LoopbackResult(t.res)
                    /\ pending' = << >>
               ELSE /\ pc' = "restore"
                    /\ pending' = t.acc
                    /\ UNCHANGED result
    /\ UNCHANGED << variant, op, arg, polls, seen, divVars, addrVars, strVars, hwVars, regVars, ctxVars >>

\* loopback_test(): the next write after a read-back that compared equal.
LoopbackRestore ==
    /\ pc = "restore"
    /\ trace' = Append(trace, Head(pending))
    /\ pending' = Tail(pending)
    /\ IF Tail(pending) = << >>
       THEN /\ pc' = "done"
            /\ result' = LoopbackResult(
                             port_SerialPort_loopback_test(
                                 ReadsOf(trace, "data")[1].val).res)
       ELSE UNCHANGED << pc, result >>
    /\ UNCHANGED << variant, op, arg, polls, seen, divVars, addrVars, strVars, hwVars, regVars, ctxVars >>

\* The call has returned; the port is free for the next call.
Return ==
    /\ pc = "done"
    /\ pc' = "idle"
    /\ op' = "none"
    /\ arg' = -1
    /\ pending' = << >>
    /\ trace' = << >>
    /\ polls' = 0
    /\ seen' = -1
    /\ result' = NoResult
    /\ UNCHANGED << variant, divVars, addrVars, strVars, hwVars, regVars, ctxVars >>

Next ==
    \/ CallInit
    \/ CallSend
    \/ CallSendRaw
    \/ CallTrySendRaw
    \/ CallReceive
    \/ CallTryReceive
    \/ InitStep
    \/ TxLineSts
    \/ TxData
    \/ RxLineSts
    \/ RxData
    \/ CallLoopbackTest
    \/ CallTryCreate
    \/ TryCreateInit
    \/ LoopbackSetup
    \/ LoopbackRead
    \/ LoopbackRestore
    \/ Return

Spec == Init /\ [][Next]_vars

\* The processor keeps executing the call in progress: an access whose turn
\* has come is made.  What a line-status read returns is up to the hardware,
\* so no fairness is assumed about the polls themselves.
LiveNext ==
    \/ CallInit
    \/ CallSendSome
    \/ CallSendRaw
    \/ CallTrySendRaw
    \/ CallReceive
    \/ CallTryReceive
    \/ InitStep
    \/ TxLineSts
    \/ TxData
    \/ RxLineSts
    \/ RxData
    \/ Return

LiveSpec ==
    Init /\ [][LiveNext]_vars /\ WF_vars(TxData) /\ WF_vars(RxData) /\ WF_vars(InitStep)

\* ------------------------------------------------------------- write_str
CallWriteStr ==
    /\ pc = "idle"
    /\ HasOp(variant, "write_str")
    /\ \E s \in Strings :
         /\ str' = s
         /\ todo' = write_str(variant, s).calls
    /\ outer' = "write_str"
    /\ sends' = << >>
    /\ wtrace' = << >>
    /\ op' = "write_str"
    /\ pc' = "for"
    /\ arg' = -1
    /\ pending' = << >>
    /\ trace' = << >>
    /\ polls' = 0
    /\ seen' = -1
    /\ result' = NoResult
    /\ UNCHANGED << variant, divVars, addrVars, hwVars, regVars, ctxVars >>

\* The head of the for loop: send() is called with the next byte, or the
\* loop is over and write_str returns.
ForByte ==
    /\ pc = "for"
    /\ op = "write_str"
    /\ IF todo # << >>
       THEN /\ op' = "send"
            /\ arg' = Head(todo)
            /\ pending' = send(variant, Head(todo))
            /\ pc' = "line_sts"
            /\ todo' = Tail(todo)
            /\ sends' = Append(sends, Head(todo))
            /\ UNCHANGED << trace, result >>
       ELSE /\ pc' = "done"
            /\ trace' = wtrace
            /\ result' = [tag |-> write_str(variant, str).res, val |-> -1]
            /\ UNCHANGED << op, arg, pending, todo, sends >>
    /\ polls' = 0
    /\ seen' = -1
    /\ UNCHANGED << variant, outer, str, wtrace, divVars, addrVars, hwVars, regVars, ctxVars >>

\* A send() called by write_str has returned to the loop.
SendReturns ==
    /\ pc = "done"
    /\ op = "send"
    /\ outer = "write_str"
    /\ wtrace' = wtrace \o Writes(trace)
    /\ op' = "write_str"
    /\ pc' = "for"
    /\ arg' = -1
    /\ trace' = << >>
    /\ result' = NoResult
    /\ UNCHANGED << variant, pending, polls, seen, outer, str, todo, sends,
                    divVars, addrVars, hwVars, regVars, ctxVars >>

\* write_str has returned; the port is free for the next call.
WriteStrReturn ==
    /\ pc = "done"
    /\ op = "write_str"
    /\ pc' = "idle"
    /\ op' = "none"
    /\ trace' = << >>
    /\ result' = NoResult
    /\ outer' = "none"
    /\ str' = << >>
    /\ todo' = << >>
    /\ sends' = << >>
    /\ wtrace' = << >>
    /\ UNCHANGED << variant, arg, pending, polls, seen, divVars, addrVars, hwVars, regVars, ctxVars >>

StrNext ==
    \/ CallWriteStr
    \/ ForByte
    \/ TxLineSts
    \/ TxData
    \/ SendReturns
    \/ WriteStrReturn

SpecStr == Init /\ [][StrNext]_vars

\* ======================================================================
\* The driver composed with the hardware
\* ======================================================================
\* The transmitter holds one byte at a time: a data write fills it (output
\* empty goes clear with the write), the hardware empties it.  The receiver
\* queues the bytes delivered to it (input full is set while one is there);
\* a data read takes the oldest.  The error bits of the line status are not
\* modelled and may read anything.
HwShows(raw) ==
    /\ Bit(raw, 5) = (thr = << >>)
    /\ Bit(raw, 0) = (rxq # << >>)

\* The raw bytes a transmit call that succeeds hands to the hardware.
SentBy(v, o, b) ==
    IF o # "send" THEN << b >>
    ELSE IF b = 8 \/ b = 127 THEN << 8, 32, 8 >>
    ELSE IF v = "port" /\ b = 10 THEN << 13, 10 >>
    ELSE << b >>

HwCallSend ==
    /\ pc = "idle"
    /\ HasOp(variant, "send")
    /\ Len(log) < MaxTx
    /\ \E b \in HwBytes : Begin("send", b, send(variant, b), "line_sts")

HwCallSendRaw ==
    /\ pc = "idle"
    /\ HasOp(variant, "send_raw")
    /\ Len(log) < MaxTx
    /\ \E b \in HwBytes : Begin("send_raw", b, << b >>, "line_sts")

HwCallTrySendRaw ==
    /\ pc = "idle"
    /\ HasOp(variant, "try_send_raw")
    /\ Len(log) < MaxTx
    /\ \E b \in HwBytes : Begin("try_send_raw", b, << b >>, "line_sts")

\* line_sts() of a transmit call: the hardware's state is what is read.
HwTxLineSts ==
    /\ TxLineSts
    /\ HwShows(seen')

\* The data-register write of a transmit call reaches the transmitter.
HwTxDataThr ==
    /\ TxDataUart
    /\ LET ws == Writes(SubSeq(trace', Len(trace) + 1, Len(trace')))
       IN thr' = IF ws = << >> THEN thr ELSE << ws[Len(ws)].val >>
    /\ log' = IF pc' = "done" /\ result'.tag \in {"Ok", "unit"}
              THEN log \o SentBy(variant, op, arg)
              ELSE log
    /\ UNCHANGED << wire, rxq, produced, returned, divVars, addrVars, strVars, regVars >>

\* With a single owner, the write finds the holding register empty.
HwTxData ==
    /\ HwTxDataThr
    /\ UNCHANGED ctxVars

\* The hardware has shifted the held byte out: output empty is set again.
HwTransmit ==
    /\ thr # << >>
    /\ wire' = wire \o thr
    /\ thr' = << >>
    /\ UNCHANGED << uartVars, log, rxq, produced, returned,
                    divVars, addrVars, strVars, regVars, ctxVars >>

\* The hardware has received a byte: input full is set.
HwDeliver ==
    /\ Len(produced) < MaxRx
    /\ Len(rxq) < RxDepth
    /\ \E b \in HwBytes :
         /\ rxq' = Append(rxq, b)
         /\ produced' = Append(produced, b)
    /\ UNCHANGED << uartVars, thr, wire, log, returned,
                    divVars, addrVars, strVars, regVars, ctxVars >>

HwCallReceive ==
    /\ pc = "idle"
    /\ HasOp(variant, "receive")
    /\ Begin("receive", -1, << >>, "line_sts")

HwCallTryReceive ==
    /\ pc = "idle"
    /\ HasOp(variant, "try_receive")
    /\ Begin("try_receive", -1, << >>, "line_sts")

\* line_sts() of a receive call: the hardware's state is what is read.
HwRxLineSts ==
    /\ RxLineSts
    /\ HwShows(seen')

\* The data-register read of a receive call takes the oldest byte received
\* (with none there the register holds a stale byte).
HwRxData ==
    /\ RxDataUart
    /\ rxq # << >> => trace'[Len(trace')].val = Head(rxq)
    /\ rxq' = IF rxq = << >> THEN rxq ELSE Tail(rxq)
    /\ returned' = IF pc' = "done" /\ result'.tag \in {"Ok", "u8"}
                   THEN Append(returned, result'.val)
                   ELSE returned
    /\ UNCHANGED << thr, wire, log, produced, divVars, addrVars, strVars, regVars, ctxVars >>

\* The transmit calls of a single owner and the transmitter.  The receiver
\* is left alone; it may hold a byte received before the calls start.
TxInit ==
    /\ variant \in Variants
    /\ UartIdle
    /\ DivIdle
    /\ AddrIdle
    /\ StrIdle
    /\ thr = << >>
    /\ wire = << >>
    /\ log = << >>
    /\ rxq \in {<< >>, << 65 >>}
    /\ produced = rxq
    /\ returned = << >>
    /\ RegIdle
    /\ CtxIdle

TxNext ==
    \/ HwCallSend
    \/ HwCallSendRaw
    \/ HwCallTrySendRaw
    \/ HwTxLineSts
    \/ HwTxData
    \/ HwTransmit
    \/ Return

SpecTx == TxInit /\ [][TxNext]_vars

\* The receive calls of a single owner and the receiver.  The transmitter
\* may still hold a byte written before the calls start.
RxInit ==
    /\ variant \in Variants
    /\ UartIdle
    /\ DivIdle
    /\ AddrIdle
    /\ StrIdle
    /\ thr \in {<< >>, << 65 >>}
    /\ wire = << >>
    /\ log = thr
    /\ rxq = << >>
    /\ produced = << >>
    /\ returned = << >>
    /\ RegIdle
    /\ CtxIdle

RxNext ==
    \/ HwCallReceive
    \/ HwCallTryReceive
    \/ HwRxLineSts
    \/ HwRxData
    \/ HwDeliver
    \/ HwTransmit
    \/ Return

SpecRx == RxInit /\ [][RxNext]_vars

\* ======================================================================
\* Two contexts on the same device
\* ======================================================================
\* The port types hold no lock: a second context that owns a port value for
\* the same registers (another core, an interrupt handler) runs the same
\* code, and its accesses interleave with the first context's one by one.
\* The first context transmits the byte 65, the second the byte 66.
\* The single-byte transmit operations the second context may call.
OtherOps(v) ==
    {o \in {"try_send_raw", "send_raw", "send"} :
        HasOp(v, o) /\ (o = "send" => ~HasOp(v, "send_raw"))}

OtherCall ==
    /\ other.pc = "idle"
    /\ other.calls < MaxOther
    /\ \E o \in OtherOps(variant) :
         other' = [pc |-> "line_sts", op |-> o, arg |-> 66, seen |-> -1,
                   calls |-> other.calls + 1]
    /\ UNCHANGED << uartVars, divVars, addrVars, strVars, hwVars, regVars, lost >>

\* line_sts() of the second context's call, and the branch taken.
OtherLineSts ==
    /\ other.pc = "line_sts"
    /\ \E raw \in LsrValues :
         /\ HwShows(raw)
         /\ LET t == try_send_raw(variant, raw, other.arg)
            IN other' = [other EXCEPT
                            !.seen = raw,
                            !.pc = IF t.res = "Ok" THEN "data"
                                   ELSE IF other.op \notin Blocking THEN "idle"
                                   ELSE IF send_raw(variant, t.res) = "spin"
                                   THEN "line_sts"
                                   ELSE "idle"]
    /\ UNCHANGED << uartVars, divVars, addrVars, strVars, hwVars, regVars, lost >>

\* The data-register write of the second context's call: whatever the
\* holding register held is overwritten.
OtherData ==
    /\ other.pc = "data"
    /\ LET ws == Writes(try_send_raw(variant, other.seen, other.arg).acc)
       IN /\ thr' = IF ws = << >> THEN thr ELSE << ws[Len(ws)].val >>
          /\ lost' = IF ws = << >> THEN lost ELSE lost \o thr
    /\ other' = [other EXCEPT !.pc = "idle"]
    /\ UNCHANGED << uartVars, wire, log, rxq, produced, returned,
                    divVars, addrVars, strVars, regVars >>

\* The data-register write of the first context's call, likewise.
TwoTxData ==
    /\ HwTxDataThr
    /\ lost' = IF Writes(SubSeq(trace', Len(trace) + 1, Len(trace'))) = << >>
               THEN lost
               ELSE lost \o thr
    /\ UNCHANGED other

\* The calls of the first context.
TwoCall ==
    /\ pc = "idle"
    /\ Len(log) < MaxTx
    /\ \E o \in TxOps :
         /\ HasOp(variant, o)
         /\ Begin(o, 65, IF o = "send" THEN send(variant, 65) ELSE << 65 >>,
                  "line_sts")

TwoInit ==
    /\ TxInit
    /\ rxq = << >>

TwoNext ==
    \/ TwoCall
    \/ HwTxLineSts
    \/ TwoTxData
    \/ OtherCall
    \/ OtherLineSts
    \/ OtherData
    \/ HwTransmit
    \/ Return

SpecTwo == TwoInit /\ [][TwoNext]_vars

\* ======================================================================
\* The register file behind the driver
\* ======================================================================
\* The divisor latch access bit: bit 7 of the line-control register.
Dlab(rg) == Bit(rg.lcr, 7)

\* The register file after one write.  While the latch access bit is set,
\* offsets 0 and 1 address the divisor latch instead of the transmitter
\* holding register and the interrupt-enable register; a byte written to the
\* holding register leaves the configuration as it was.
RegWrite(rg, reg, val) ==
    CASE reg = "data"       -> IF Dlab(rg) THEN [rg EXCEPT !.dll = val] ELSE rg
      [] reg = "int_en"     -> IF Dlab(rg) THEN [rg EXCEPT !.dlm = val]
                                           ELSE [rg EXCEPT !.ier = val]
      [] reg = "fifo_ctrl"  -> [rg EXCEPT !.fcr = val]
      [] reg = "line_ctrl"  -> [rg EXCEPT !.lcr = val]
      [] reg = "modem_ctrl" -> [rg EXCEPT !.mcr = val]
      [] OTHER              -> rg

\* The register file after a sequence of accesses; reads leave it alone.
RECURSIVE RegApply(_, _)
RegApply(rg, accs) ==
    IF accs = << >> THEN rg
    ELSE RegApply(IF Head(accs).k = "w"
                  THEN RegWrite(rg, Head(accs).reg, Head(accs).val)
                  ELSE rg,
                  Tail(accs))

\* Register states init() may find: reset, configured by an earlier init(),
\* left by other software, with the latch access bit set or clear.
PriorRegs ==
    [ier : {0, 1, 15}, lcr : {0, 3, 128, 131}, fcr : {0, 199},
     mcr : {0, 11, 30}, dll : {0, 3, 12}, dlm : {0, 9}]

\* The accesses of this step reach the register file.
RegEffect ==
    regs' = RegApply(regs, SubSeq(trace', Len(trace) + 1, Len(trace')))

RegInit ==
    /\ variant \in Variants
    /\ UartIdle
    /\ DivIdle
    /\ AddrIdle
    /\ StrIdle
    /\ HwIdle
    /\ regs \in PriorRegs
    /\ inited = FALSE
    /\ CtxIdle

RegInitStep ==
    /\ InitStepUart
    /\ RegEffect
    /\ inited' = (inited \/ pc' = "done")
    /\ UNCHANGED << divVars, addrVars, strVars, hwVars, ctxVars >>

\* After init(), the input and output operations are called in any order.
RegCall ==
    /\ inited
    /\ \/ CallSendSome
       \/ CallSendRaw
       \/ CallTrySendRaw
       \/ CallReceive
       \/ CallTryReceive
       \/ CallWriteStr

RegTxLineSts ==
    /\ TxLineStsUart
    /\ RegEffect
    /\ UNCHANGED << inited, divVars, addrVars, strVars, hwVars, ctxVars >>

RegTxData ==
    /\ TxDataUart
    /\ RegEffect
    /\ UNCHANGED << inited, divVars, addrVars, strVars, hwVars, ctxVars >>

RegRxLineSts ==
    /\ RxLineStsUart
    /\ RegEffect
    /\ UNCHANGED << inited, divVars, addrVars, strVars, hwVars, ctxVars >>

RegRxData ==
    /\ RxDataUart
    /\ RegEffect
    /\ UNCHANGED << inited, divVars, addrVars, strVars, hwVars, ctxVars >>

\* A call made directly (not by write_str) has returned.
RegReturn ==
    /\ outer = "none"
    /\ op # "write_str"
    /\ Return

RegNext ==
    \/ CallInit
    \/ RegInitStep
    \/ RegCall
    \/ RegTxLineSts
    \/ RegTxData
    \/ RegRxLineSts
    \/ RegRxData
    \/ ForByte
    \/ SendReturns
    \/ WriteStrReturn
    \/ RegReturn

SpecRegs == RegInit /\ [][RegNext]_vars

\* ======================================================================
\* Divisor latch (lib.rs)
\* ======================================================================
\* DivisorLatchLeastFlags
DivisorLatchLeastFlags_BAUD_50 == 0
DivisorLatchLeastFlags_BAUD_300 == 128
DivisorLatchLeastFlags_BAUD_1200 == 96
DivisorLatchLeastFlags_BAUD_2400 == 48
DivisorLatchLeastFlags_BAUD_4800 == 24
DivisorLatchLeastFlags_BAUD_9600 == 12
DivisorLatchLeastFlags_BAUD_19200 == 6
DivisorLatchLeastFlags_BAUD_38400 == 3
DivisorLatchLeastFlags_BAUD_57600 == 2
DivisorLatchLeastFlags_BAUD_115200 == 1

\* DivisorLatchMostFlags
DivisorLatchMostFlags_BAUD_50 == 9
DivisorLatchMostFlags_BAUD_300 == 1
DivisorLatchMostFlags_BAUD_1200_115200 == 0

\* DivisorLatchFlags::new: the pair of the two flag values given.
DivisorLatchFlags_new(l, m) == [dll |-> l, dlm |-> m]

\* The named constructors.
BaudConstructors ==
    {"baud_50", "baud_300", "baud_1200", "baud_2400", "baud_4800", "baud_9600",
     "baud_19200", "baud_38400", "baud_57600", "baud_115200"}

\* baud_50() .. baud_115200(): the pair of constants each one names.
DivisorLatchFlags_baud(c) ==
    CASE c = "baud_50"     ->
           [dll |-> DivisorLatchLeastFlags_BAUD_50, dlm |-> DivisorLatchMostFlags_BAUD_50]
      [] c = "baud_300"    ->
           [dll |-> DivisorLatchLeastFlags_BAUD_300, dlm |-> DivisorLatchMostFlags_BAUD_300]
      [] c = "baud_1200"   ->
           [dll |-> DivisorLatchLeastFlags_BAUD_1200, dlm |-> DivisorLatchMostFlags_BAUD_1200_115200]
      [] c = "baud_2400"   ->
           [dll |-> DivisorLatchLeastFlags_BAUD_2400, dlm |-> DivisorLatchMostFlags_BAUD_1200_115200]
      [] c = "baud_4800"   ->
           [dll |-> DivisorLatchLeastFlags_BAUD_4800, dlm |-> DivisorLatchMostFlags_BAUD_1200_115200]
      [] c = "baud_9600"   ->
           [dll |-> DivisorLatchLeastFlags_BAUD_9600, dlm |-> DivisorLatchMostFlags_BAUD_1200_115200]
      [] c = "baud_19200"  ->
           [dll |-> DivisorLatchLeastFlags_BAUD_19200, dlm |-> DivisorLatchMostFlags_BAUD_1200_115200]
      [] c = "baud_38400"  ->
           [dll |-> DivisorLatchLeastFlags_BAUD_38400, dlm |-> DivisorLatchMostFlags_BAUD_1200_115200]
      [] c = "baud_57600"  ->
           [dll |-> DivisorLatchLeastFlags_BAUD_57600, dlm |-> DivisorLatchMostFlags_BAUD_1200_115200]
      [] c = "baud_115200" ->
           [dll |-> DivisorLatchLeastFlags_BAUD_115200, dlm |-> DivisorLatchMostFlags_BAUD_1200_115200]

\* Variant: the two halves come back in the other order.
DivisorLatchFlags_split_swapped(self) == << self.dlm, self.dll >>

\* split(), dll(), dlm(): the fields as they are.
DivisorLatchFlags_split(self) == << self.dll, self.dlm >>
DivisorLatchFlags_dll(self) == self.dll
DivisorLatchFlags_dlm(self) == self.dlm

\* Variant: the 300-baud arm names the wrong high-byte constant.
validate_arm_300_high_0(self) ==
    LET p == << self.dll, self.dlm >>
    IN \/ p = << DivisorLatchLeastFlags_BAUD_50, DivisorLatchMostFlags_BAUD_50 >>
       \/ p = << DivisorLatchLeastFlags_BAUD_300, DivisorLatchMostFlags_BAUD_1200_115200 >>
       \/ p = << DivisorLatchLeastFlags_BAUD_1200, DivisorLatchMostFlags_BAUD_1200_115200 >>
       \/ p = << DivisorLatchLeastFlags_BAUD_2400, DivisorLatchMostFlags_BAUD_1200_115200 >>
       \/ p = << DivisorLatchLeastFlags_BAUD_4800, DivisorLatchMostFlags_BAUD_1200_115200 >>
       \/ p = << DivisorLatchLeastFlags_BAUD_9600, DivisorLatchMostFlags_BAUD_1200_115200 >>
       \/ p = << DivisorLatchLeastFlags_BAUD_19200, DivisorLatchMostFlags_BAUD_1200_115200 >>
       \/ p = << DivisorLatchLeastFlags_BAUD_38400, DivisorLatchMostFlags_BAUD_1200_115200 >>
       \/ p = << DivisorLatchLeastFlags_BAUD_57600, DivisorLatchMostFlags_BAUD_1200_115200 >>
       \/ p = << DivisorLatchLeastFlags_BAUD_115200, DivisorLatchMostFlags_BAUD_1200_115200 >>

\* DivisorLatchFlags::validate: the match on (self.dll, self.dlm); a flag
\* value matches a constant pattern when their bits are equal.
validate(self) ==
    LET p == << self.dll, self.dlm >>
    IN \/ p = << DivisorLatchLeastFlags_BAUD_50, DivisorLatchMostFlags_BAUD_50 >>
       \/ p = << DivisorLatchLeastFlags_BAUD_300, DivisorLatchMostFlags_BAUD_300 >>
       \/ p = << DivisorLatchLeastFlags_BAUD_1200, DivisorLatchMostFlags_BAUD_1200_115200 >>
       \/ p = << DivisorLatchLeastFlags_BAUD_2400, DivisorLatchMostFlags_BAUD_1200_115200 >>
       \/ p = << DivisorLatchLeastFlags_BAUD_4800, DivisorLatchMostFlags_BAUD_1200_115200 >>
       \/ p = << DivisorLatchLeastFlags_BAUD_9600, DivisorLatchMostFlags_BAUD_1200_115200 >>
       \/ p = << DivisorLatchLeastFlags_BAUD_19200, DivisorLatchMostFlags_BAUD_1200_115200 >>
       \/ p = << DivisorLatchLeastFlags_BAUD_38400, DivisorLatchMostFlags_BAUD_1200_115200 >>
       \/ p = << DivisorLatchLeastFlags_BAUD_57600, DivisorLatchMostFlags_BAUD_1200_115200 >>
       \/ p = << DivisorLatchLeastFlags_BAUD_115200, DivisorLatchMostFlags_BAUD_1200_115200 >>

\* new(low, high) for flag values with any bits.
DivNew ==
    /\ dpc = "none"
    /\ \E l \in U8, m \in U8 :
         LET f == DivisorLatchFlags_new(l, m)
         IN /\ dll' = f.dll
            /\ dlm' = f.dlm
            /\ dargs' = << l, m >>
    /\ dpc' = "new"
    /\ dctor' = "new"
    /\ UNCHANGED << valid, dout, uartVars, addrVars, strVars, hwVars, regVars, ctxVars >>

\* One of the named constructors.
DivBaud ==
    /\ dpc = "none"
    /\ \E c \in BaudConstructors :
         /\ dll' = DivisorLatchFlags_baud(c).dll
         /\ dlm' = DivisorLatchFlags_baud(c).dlm
         /\ dctor' = c
    /\ dpc' = "new"
    /\ UNCHANGED << valid, dargs, dout, uartVars, addrVars, strVars, hwVars, regVars, ctxVars >>

\* validate() on the pair constructed.
DivValidate ==
    /\ dpc = "new"
    /\ valid' = validate([dll |-> dll, dlm |-> dlm])
    /\ dpc' = "validated"
    /\ UNCHANGED << dll, dlm, dctor, dargs, dout, uartVars, addrVars, strVars, hwVars, regVars, ctxVars >>

\* split(), dll() and dlm() on the pair constructed.
DivAccess ==
    /\ dpc = "validated"
    /\ LET self == [dll |-> dll, dlm |-> dlm]
       IN dout' = [split |-> DivisorLatchFlags_split(self),
                   dll |-> DivisorLatchFlags_dll(self),
                   dlm |-> DivisorLatchFlags_dlm(self)]
    /\ dpc' = "read"
    /\ UNCHANGED << dll, dlm, valid, dctor, dargs, uartVars, addrVars, strVars, hwVars, regVars, ctxVars >>

DivInit ==
    /\ variant = "generic"
    /\ UartIdle
    /\ DivIdle
    /\ AddrIdle
    /\ StrIdle
    /\ HwIdle
    /\ RegIdle
    /\ CtxIdle

DivNext ==
    \/ DivNew
    \/ DivBaud
    \/ DivValidate
    \/ DivAccess

SpecDiv == DivInit /\ [][DivNext]_vars

\* ======================================================================
\* Register-set construction (mmio.rs, port.rs, x86_64.rs)
\* ======================================================================
\* Number of u16 port numbers, of usize addresses.
PortSpace == 65536
UsizeSpace == 2 ^ UsizeBits

\* What construction yields: a status and the address of every register
\* (-1 where the computation of the address panicked).
Built(st, a) == [status |-> st, addrs |-> a]

\* a + b on integers of the given range: the sum when it fits; otherwise a
\* panic (-1) with overflow checks on and the wrapped sum with them off.
checked_add(a, b, space, build) ==
    IF a = -1 \/ b = -1 THEN -1
    ELSE IF a + b < space THEN a + b
    ELSE IF build = "debug" THEN -1
    ELSE (a + b) % space

\* a * b on usize, likewise.
checked_mul(a, b, space, build) ==
    IF a * b < space THEN a * b
    ELSE IF build = "debug" THEN -1
    ELSE (a * b) % space

\* port.rs: the port number of each register, computed from the base port.
port_base(self) == self
port_data(self) == port_base(self)
port_int_en(self, build) == checked_add(port_base(self), 1, PortSpace, build)
port_fifo_ctrl(self, build) == checked_add(port_base(self), 2, PortSpace, build)
port_line_ctrl(self, build) == checked_add(port_base(self), 3, PortSpace, build)
port_modem_ctrl(self, build) == checked_add(port_base(self), 4, PortSpace, build)
\* Variant: line-status is given the modem-control offset.
port_line_sts_offset_4(self, build) == checked_add(port_base(self), 4, PortSpace, build)

port_line_sts(self, build) == checked_add(port_base(self), 5, PortSpace, build)

\* port.rs SerialPort::new keeps the base; every access goes through the
\* accessors above.
port_SerialPort_new(base, build) ==
    LET self == base
        a == [r \in RegNames |->
                CASE r = "data"       -> port_data(self)
                  [] r = "int_en"     -> port_int_en(self, build)
                  [] r = "fifo_ctrl"  -> port_fifo_ctrl(self, build)
                  [] r = "line_ctrl"  -> port_line_ctrl(self, build)
                  [] r = "modem_ctrl" -> port_modem_ctrl(self, build)
                  [] r = "line_sts"   -> port_line_sts(self, build)]
    IN { Built(IF \E r \in RegNames : a[r] = -1 THEN "panic" ELSE "ok", a) }

\* x86_64.rs SerialPort::new computes the six port numbers at once; a panic
\* in any of them leaves no port.
x86_64_SerialPort_new(base, build) ==
    LET a == [r \in RegNames |->
                CASE r = "data"       -> base
                  [] r = "int_en"     -> checked_add(base, 1, PortSpace, build)
                  [] r = "fifo_ctrl"  -> checked_add(base, 2, PortSpace, build)
                  [] r = "line_ctrl"  -> checked_add(base, 3, PortSpace, build)
                  [] r = "modem_ctrl" -> checked_add(base, 4, PortSpace, build)
                  [] r = "line_sts"   -> checked_add(base, 5, PortSpace, build)]
    IN IF \E r \in RegNames : a[r] = -1
       THEN { Built("panic", [r \in RegNames |-> -1]) }
       ELSE { Built("ok", a) }

\* pointer::add(count) is defined when count fits isize and the sum does not
\* wrap around the address space.
add_defined(ptr, count) == count < UsizeSpace \div 2 /\ ptr + count < UsizeSpace

\* Variant: the FIFO-control and line-control offsets are exchanged.
MmioSerialPort_new_with_stride_swapped(base, stride, build) ==
    LET off == [r \in RegNames |->
                CASE r = "data"       -> 0
                  [] r = "int_en"     -> checked_mul(1, stride, UsizeSpace, build)
                  [] r = "fifo_ctrl"  -> checked_mul(3, stride, UsizeSpace, build)
                  [] r = "line_ctrl"  -> checked_mul(2, stride, UsizeSpace, build)
                  [] r = "modem_ctrl" -> checked_mul(4, stride, UsizeSpace, build)
                  [] r = "line_sts"   -> checked_mul(5, stride, UsizeSpace, build)]
        wrapped == [r \in RegNames |-> (base + off[r]) % UsizeSpace]
        dropped == [r \in RegNames |->
                      IF add_defined(base, off[r]) THEN base + off[r] ELSE base]
    IN IF \E r \in RegNames : off[r] = -1
       THEN { Built("panic", [r \in RegNames |-> -1]) }
       ELSE IF \A r \in RegNames : add_defined(base, off[r])
       THEN { Built("ok", wrapped) }
       ELSE { Built("ub", wrapped), Built("ub", dropped) }

\* MmioSerialPort::new_with_stride: base_pointer.add(i * stride) per register.
\* The product is checked usize arithmetic; an add that is not defined is
\* undefined behaviour, with the wrapped address or the unmoved pointer as
\* the outcomes considered.
MmioSerialPort_new_with_stride(base, stride, build) ==
    LET off == [r \in RegNames |->
                CASE r = "data"       -> 0
                  [] r = "int_en"     -> checked_mul(1, stride, UsizeSpace, build)
                  [] r = "fifo_ctrl"  -> checked_mul(2, stride, UsizeSpace, build)
                  [] r = "line_ctrl"  -> checked_mul(3, stride, UsizeSpace, build)
                  [] r = "modem_ctrl" -> checked_mul(4, stride, UsizeSpace, build)
                  [] r = "line_sts"   -> checked_mul(5, stride, UsizeSpace, build)]
        wrapped == [r \in RegNames |-> (base + off[r]) % UsizeSpace]
        dropped == [r \in RegNames |->
                      IF add_defined(base, off[r]) THEN base + off[r] ELSE base]
    IN IF \E r \in RegNames : off[r] = -1
       THEN { Built("panic", [r \in RegNames |-> -1]) }
       ELSE IF \A r \in RegNames : add_defined(base, off[r])
       THEN { Built("ok", wrapped) }
       ELSE { Built("ub", wrapped), Built("ub", dropped) }

\* MmioSerialPort::new
MmioSerialPort_new(base, build) == MmioSerialPort_new_with_stride(base, 1, build)

\* Base ports and base addresses tried: the usual ones and the top of the range.
PortBases == {0, 760, 1016, PortSpace - 8, PortSpace - 6, PortSpace - 5, PortSpace - 1}
MmioBases == {0, 4096, UsizeSpace - 48, UsizeSpace - 6, UsizeSpace - 5, UsizeSpace - 1}
Strides == {1, 2, 4, 8, UsizeSpace \div 4}
Builds == {"debug", "release"}

\* The constructor returns one of its possible outcomes.
Construct(outcomes) ==
    /\ apc = "args"
    /\ \E b \in outcomes :
         /\ addrs' = b.addrs
         /\ astatus' = b.status
    /\ apc' = "constructed"
    /\ UNCHANGED << akind, abuild, abase, astride, uartVars, divVars, strVars, hwVars, regVars, ctxVars >>

AddrMmioNew ==
    /\ akind = "MmioSerialPort::new"
    /\ Construct(MmioSerialPort_new(abase, abuild))

AddrMmioNewWithStride ==
    /\ akind = "MmioSerialPort::new_with_stride"
    /\ Construct(MmioSerialPort_new_with_stride(abase, astride, abuild))

AddrPortNew ==
    /\ akind = "port::SerialPort::new"
    /\ Construct(port_SerialPort_new(abase, abuild))

AddrX86New ==
    /\ akind = "x86_64::SerialPort::new"
    /\ Construct(x86_64_SerialPort_new(abase, abuild))

AddrInit ==
    /\ variant = "generic"
    /\ UartIdle
    /\ DivIdle
    /\ akind \in {"MmioSerialPort::new", "MmioSerialPort::new_with_stride",
                  "port::SerialPort::new", "x86_64::SerialPort::new"}
    /\ abuild \in Builds
    /\ abase \in IF akind \in {"MmioSerialPort::new", "MmioSerialPort::new_with_stride"}
                 THEN MmioBases ELSE PortBases
    /\ astride \in IF akind = "MmioSerialPort::new_with_stride" THEN Strides ELSE {1}
    /\ addrs = [r \in RegNames |-> -1]
    /\ astatus = "ok"
    /\ apc = "args"
    /\ StrIdle
    /\ HwIdle
    /\ RegIdle
    /\ CtxIdle

AddrNext ==
    \/ AddrMmioNew
    \/ AddrMmioNewWithStride
    \/ AddrPortNew
    \/ AddrX86New

SpecAddr == AddrInit /\ [][AddrNext]_vars

\* ======================================================================
\* Properties
\* ======================================================================
\* The accesses to register reg in an access trace, in order.
AccessesOf(t, reg) == SelectSeq(t, LAMBDA e : e.reg = reg)

Returned(o) == op = o /\ pc = "done"

\* ---------------------------------------------------------------------- C1
\* The eight writes of the documented bring-up sequence.
BringUp ==
    << [k |-> "w", reg |-> "int_en", val |-> 0],
       [k |-> "w", reg |-> "line_ctrl", val |-> 128],
       [k |-> "w", reg |-> "data", val |-> 3],
       [k |-> "w", reg |-> "int_en", val |-> 0],
       [k |-> "w", reg |-> "line_ctrl", val |-> 3],
       [k |-> "w", reg |-> "fifo_ctrl", val |-> 199],
       [k |-> "w", reg |-> "modem_ctrl", val |-> 11],
       [k |-> "w", reg |-> "int_en", val |-> 1] >>

\* C1: in every variant init() makes the eight documented writes in the
\* documented order and no other register access: while it runs its accesses
\* are a prefix of the sequence, and when it returns they are all of it.
C1_InitSequence ==
    op = "init" =>
        /\ Len(trace) <= Len(BringUp)
        /\ trace = SubSeq(BringUp, 1, Len(trace))
        /\ (pc = "done" => trace = BringUp)

C1_Witness == Returned("init") /\ variant = "port" /\ Len(Writes(trace)) = 8

\* ---------------------------------------------------------------------- C2
\* C2 as stated: every send(b) with b outside {0x08, 0x7F} makes exactly one
\* write, of b, to the data register, in every implementation.
C2_Original ==
    (Returned("send") /\ arg \notin {8, 127}) =>
        Writes(trace) = << [k |-> "w", reg |-> "data", val |-> arg] >>

\* C2 amended: the same, except that port.rs's send(0x0A) is not covered.
C2_SendPlain ==
    (Returned("send") /\ arg \notin {8, 127} /\ ~(variant = "port" /\ arg = 10)) =>
        Writes(trace) = << [k |-> "w", reg |-> "data", val |-> arg] >>

C2_Witness ==
    /\ Returned("send") /\ variant = "port" /\ arg = 13
    /\ Len(Writes(trace)) = 1

\* ---------------------------------------------------------------------- C3
\* C3: send(0x08) and send(0x7F) write 0x08, 0x20, 0x08 to the data register,
\* in this order, and make no other write, in every implementation.
C3_SendErase ==
    (Returned("send") /\ arg \in {8, 127}) =>
        Writes(trace) = << [k |-> "w", reg |-> "data", val |-> 8],
                           [k |-> "w", reg |-> "data", val |-> 32],
                           [k |-> "w", reg |-> "data", val |-> 8] >>

C3_Witness ==
    /\ Returned("send") /\ variant = "x86_64" /\ arg = 127
    /\ Len(Writes(trace)) = 3

\* ---------------------------------------------------------------------- C4
\* C4: try_send_raw(b) reads line-status once; with bit 5 of the byte read
\* clear it returns would-block and makes no other access; with the bit set
\* it returns Ok and makes exactly one more access, the write of b to data.
C4_TrySendRaw ==
    Returned("try_send_raw") =>
        /\ Len(trace) >= 1
        /\ trace[1].k = "r" /\ trace[1].reg = "line_sts"
        /\ Len(ReadsOf(trace, "line_sts")) = 1
        /\ IF Bit(trace[1].val, 5)
           THEN /\ result.tag = "Ok"
                /\ trace = << trace[1], [k |-> "w", reg |-> "data", val |-> arg] >>
           ELSE /\ result.tag = "Err"
                /\ trace = << trace[1] >>

C4_Witness ==
    /\ Returned("try_send_raw") /\ result.tag = "Err"
    /\ trace = << [k |-> "r", reg |-> "line_sts", val |-> 158] >>

\* ---------------------------------------------------------------------- C5
\* C5: try_receive() reads line-status once; with bit 0 of the byte read
\* clear it returns would-block without touching the data register; with the
\* bit set it reads the data register once and returns the byte read.  It
\* writes no register.
C5_TryReceive ==
    Returned("try_receive") =>
        /\ Len(trace) >= 1
        /\ trace[1].k = "r" /\ trace[1].reg = "line_sts"
        /\ Len(ReadsOf(trace, "line_sts")) = 1
        /\ Writes(trace) = << >>
        /\ IF Bit(trace[1].val, 0)
           THEN /\ Len(trace) = 2
                /\ trace[2].k = "r" /\ trace[2].reg = "data"
                /\ result = [tag |-> "Ok", val |-> trace[2].val]
           ELSE /\ result.tag = "Err"
                /\ trace = << trace[1] >>

C5_Witness ==
    /\ Returned("try_receive") /\ result = [tag |-> "Ok", val |-> 174]
    /\ trace = << [k |-> "r", reg |-> "line_sts", val |-> 255],
                  [k |-> "r", reg |-> "data", val |-> 174] >>

\* ---------------------------------------------------------------------- C6
\* Entry i of the trace is a line-status read whose bit n is set / clear.
LsrSet(t, i, n) == t[i].k = "r" /\ t[i].reg = "line_sts" /\ Bit(t[i].val, n)
LsrClear(t, i, n) == t[i].k = "r" /\ t[i].reg = "line_sts" /\ ~Bit(t[i].val, n)

\* The number of line-status reads in the trace that show bit n clear.
NotReady(t, n) ==
    Len(SelectSeq(t, LAMBDA e : e.k = "r" /\ e.reg = "line_sts" /\ ~Bit(e.val, n)))

\* C6: send_raw(b) that saw output-empty clear on k reads has written nothing
\* so far; it returns after exactly k+1 line-status reads, the last one
\* showing the bit set, followed by the single write of b to data.
C6_SendRaw ==
    op = "send_raw" =>
        LET k == NotReady(trace, 5)
        IN /\ \A i \in 1 .. k : LsrClear(trace, i, 5)
           /\ pc = "line_sts" => Len(trace) = k
           /\ pc = "data" => Len(trace) = k + 1 /\ LsrSet(trace, k + 1, 5)
           /\ pc = "done" =>
                /\ Len(trace) = k + 2
                /\ LsrSet(trace, k + 1, 5)
                /\ trace[k + 2] = [k |-> "w", reg |-> "data", val |-> arg]
                /\ result.tag = "unit"

C6_Witness ==
    /\ Returned("send_raw") /\ arg = 65
    /\ trace = << [k |-> "r", reg |-> "line_sts", val |-> 0],
                  [k |-> "r", reg |-> "line_sts", val |-> 32],
                  [k |-> "w", reg |-> "data", val |-> 65] >>

\* ---------------------------------------------------------------------- C7
\* C7: receive() reads only line-status until a read shows input-full set,
\* then reads the data register exactly once and returns the byte it read.
C7_Receive ==
    op = "receive" =>
        LET k == NotReady(trace, 0)
        IN /\ \A i \in 1 .. k : LsrClear(trace, i, 0)
           /\ pc = "line_sts" => Len(trace) = k
           /\ pc = "data" => Len(trace) = k + 1 /\ LsrSet(trace, k + 1, 0)
           /\ pc = "done" =>
                /\ Len(trace) = k + 2
                /\ LsrSet(trace, k + 1, 0)
                /\ trace[k + 2].k = "r" /\ trace[k + 2].reg = "data"
                /\ result = [tag |-> "u8", val |-> trace[k + 2].val]

C7_Witness ==
    /\ Returned("receive") /\ variant = "x86_64" /\ result.val = 65
    /\ trace = << [k |-> "r", reg |-> "line_sts", val |-> 32],
                  [k |-> "r", reg |-> "line_sts", val |-> 1],
                  [k |-> "r", reg |-> "data", val |-> 65] >>

\* ---------------------------------------------------------------------- C8
\* The readiness bit a call waits for.
ReadyBit == IF op \in RxOps THEN 0 ELSE 5

\* Every data-register access of the trace directly follows a line-status
\* read that showed the awaited bit set.
DataOnlyWhenReady ==
    \A i \in 1 .. Len(trace) :
        trace[i].reg = "data" => (i > 1 /\ LsrSet(trace, i - 1, ReadyBit))

\* C8: a blocking call never reports failure; it touches the data register
\* only after observing the awaited bit set, and returns only after such an
\* observation (so it neither returns nor touches data while the bit stays
\* clear, however long that lasts); and once the bit is observed set the
\* access is made and the call proceeds to its return or its next wait.
C8_Blocking ==
    /\ [](op \in Blocking =>
            /\ DataOnlyWhenReady
            /\ pc = "done" =>
                 /\ result.tag \in {"unit", "u8"}
                 /\ Len(AccessesOf(trace, "data")) >= 1
                 /\ LsrSet(trace, Len(trace) - 1, ReadyBit))
    /\ \A n \in 0 .. 3 :
         (op \in Blocking /\ pc = "data" /\ Len(pending) = n)
            ~> (pc = "done" \/ (pc = "line_sts" /\ Len(pending) < n))

C8_Witness ==
    /\ Returned("send") /\ variant = "port" /\ arg = 8 /\ polls = MaxPolls
    /\ Len(AccessesOf(trace, "data")) = 3

\* ---------------------------------------------------------------------- C9
\* The ten documented (low, high) divisor pairs.
DocumentedPairs ==
    { << 0, 9 >>, << 128, 1 >>, << 96, 0 >>, << 48, 0 >>, << 24, 0 >>,
      << 12, 0 >>, << 6, 0 >>, << 3, 0 >>, << 2, 0 >>, << 1, 0 >> }

\* C9: for every pair of bytes held by a DivisorLatchFlags, validate() is
\* true exactly when the pair is one of the ten documented pairs.
C9_Validate ==
    dpc = "validated" => (valid <=> << dll, dlm >> \in DocumentedPairs)

C9_Witness == dpc = "validated" /\ dll = 128 /\ dlm = 0 /\ ~valid

\* --------------------------------------------------------------------- C10
\* Position of each register in the documented layout.
LayoutIndex(r) ==
    CASE r = "data"       -> 0
      [] r = "int_en"     -> 1
      [] r = "fifo_ctrl"  -> 2
      [] r = "line_ctrl"  -> 3
      [] r = "modem_ctrl" -> 4
      [] r = "line_sts"   -> 5

\* The stride a constructor call uses: its argument for new_with_stride, 1
\* for MmioSerialPort::new and for the port-mapped constructors.
EffectiveStride == IF akind = "MmioSerialPort::new_with_stride" THEN astride ELSE 1

\* Size of the address type of the constructor called.
AddressSpace ==
    IF akind \in {"port::SerialPort::new", "x86_64::SerialPort::new"}
    THEN 65536 ELSE 2 ^ UsizeBits

\* C10: a constructed register set has data, interrupt-enable, FIFO-control,
\* line-control, modem-control, line-status at B, B+S, B+2S, B+3S, B+4S,
\* B+5S (sums in the address type), with S = 1 for MmioSerialPort::new and
\* the port-mapped constructors; when B+5S fits the address type the
\* constructor succeeds and the sums are exact.
C10_Layout ==
    apc = "constructed" =>
        /\ astatus # "ub" =>
             \A r \in RegNames :
                \/ addrs[r] = -1
                \/ addrs[r] = (abase + LayoutIndex(r) * EffectiveStride) % AddressSpace
        /\ abase + 5 * EffectiveStride < AddressSpace =>
             /\ astatus = "ok"
             /\ \A r \in RegNames : addrs[r] = abase + LayoutIndex(r) * EffectiveStride

C10_Witness ==
    /\ apc = "constructed" /\ akind = "MmioSerialPort::new_with_stride"
    /\ abase = 4096 /\ astride = 4 /\ astatus = "ok"
    /\ addrs["line_sts"] = 4116

\* --------------------------------------------------------------------- C11
\* The registers in layout order.
LayoutOrder == << "data", "int_en", "fifo_ctrl", "line_ctrl", "modem_ctrl", "line_sts" >>

\* The addresses of the constructed set increase strictly along the layout.
StrictlyIncreasing ==
    \A i \in 1 .. 5 : addrs[LayoutOrder[i]] < addrs[LayoutOrder[i + 1]]

C12_PortLineFeed ==
    variant = "port" =>
        /\ (Returned("send") /\ arg = 10) =>
              /\ Writes(trace) = << [k |-> "w", reg |-> "data", val |-> 13],
                                    [k |-> "w", reg |-> "data", val |-> 10] >>
              /\ DataOnlyWhenReady
              /\ Len(SelectSeq(trace, LAMBDA e : e.k = "r" /\ Bit(e.val, 5))) = 2
        /\ Returned("send_raw") =>
              Writes(trace) = << [k |-> "w", reg |-> "data", val |-> arg] >>

C12_Witness ==
    /\ variant = "port" /\ Returned("send") /\ arg = 10
    /\ trace = << [k |-> "r", reg |-> "line_sts", val |-> 32],
                  [k |-> "w", reg |-> "data", val |-> 13],
                  [k |-> "r", reg |-> "line_sts", val |-> 1],
                  [k |-> "r", reg |-> "line_sts", val |-> 255],
                  [k |-> "w", reg |-> "data", val |-> 10] >>

\* --------------------------------------------------------------------- C13
\* send(b) hands on something other than b alone.
Transformed(v, b) == b \in {8, 127} \/ (v = "port" /\ b = 10)

\* C13: write_str(s) calls send() with every byte of s exactly once, in
\* order: at any moment the bytes already handed to send() followed by the
\* bytes still to visit are s, and none is left when it returns.  It returns
\* Ok, never an error, and for a string without a byte that send() rewrites
\* its data writes are the bytes of s, in order.
C13_WriteStr ==
    outer = "write_str" =>
        /\ sends \o todo = str
        /\ result.tag # "Err"
        /\ Returned("write_str") =>
              /\ sends = str
              /\ result.tag = "Ok"
              /\ (\A i \in 1 .. Len(str) : ~Transformed(variant, str[i])) =>
                    trace = [i \in 1 .. Len(str) |-> W("data", str[i])]

C13_Witness ==
    /\ Returned("write_str") /\ variant = "mmio" /\ result.tag = "Ok"
    /\ str = << 10, 65 >> /\ sends = << 10, 65 >>
    /\ trace = << W("data", 10), W("data", 65) >>

\* --------------------------------------------------------------------- C14
\* What a returned try call did after its line-status read, in the form the
\* try functions give it.
TrySendOutcome ==
    [acc |-> SubSeq(trace, 2, Len(trace)),
     res |-> IF result.tag = "Ok" THEN "Ok" ELSE "WouldBlock"]

TryReceiveOutcome ==
    [read |-> Len(ReadsOf(trace, "data")) > 0,
     res |-> IF result.tag = "Ok" THEN "Ok" ELSE "WouldBlock"]

\* C14: the error bits of the line status are never surfaced.  What a
\* try_send_raw did and returned is what it does for every line-status byte
\* with the same bit 5, and what a try_receive did and returned is what it
\* does for every line-status byte with the same bit 0; the value returned
\* carries nothing of the line status.
C14_ErrorBitsIgnored ==
    /\ Returned("try_send_raw") =>
          /\ \A raw2 \in U8 :
                Bit(raw2, 5) = Bit(trace[1].val, 5) =>
                    try_send_raw(variant, raw2, arg) = TrySendOutcome
          /\ result \in {[tag |-> "Ok", val |-> -1], [tag |-> "Err", val |-> -1]}
    /\ Returned("try_receive") =>
          /\ \A raw2 \in U8 :
                Bit(raw2, 0) = Bit(trace[1].val, 0) =>
                    try_receive(variant, raw2) = TryReceiveOutcome
          /\ \/ result = [tag |-> "Err", val |-> -1]
             \/ /\ result.tag = "Ok"
                /\ Len(trace) = 2
                /\ result.val = trace[2].val

C14_Witness ==
    /\ Returned("try_receive") /\ variant = "port"
    /\ trace = << [k |-> "r", reg |-> "line_sts", val |-> 158] >>
    /\ result = [tag |-> "Err", val |-> -1]

\* --------------------------------------------------------------------- C15
\* C15: loopback_test() writes 0x00 to interrupt-enable, 0x1E to
\* modem-control and 0xAE to data, then reads the data register, once in the
\* whole call; it returns Ok(()) exactly when the byte read is 0xAE and
\* Err(()) for every other byte.
C15_LoopbackTest ==
    Returned("loopback_test") =>
        /\ Len(trace) >= 4
        /\ SubSeq(trace, 1, 3) = << [k |-> "w", reg |-> "int_en", val |-> 0],
                                    [k |-> "w", reg |-> "modem_ctrl", val |-> 30],
                                    [k |-> "w", reg |-> "data", val |-> 174] >>
        /\ trace[4].k = "r" /\ trace[4].reg = "data"
        /\ Len(SelectSeq(trace, LAMBDA e : e.k = "r")) = 1
        /\ result.tag \in {"Ok", "Err"}
        /\ result.tag = "Ok" <=> trace[4].val = 174

C15_Witness ==
    /\ Returned("loopback_test") /\ result.tag = "Err"
    /\ trace[4] = [k |-> "r", reg |-> "data", val |-> 255]

\* --------------------------------------------------------------------- C16
\* The value written last to register reg in an access trace (-1: none).
LastWritten(t, reg) ==
    LET ws == SelectSeq(t, LAMBDA e : e.k = "w" /\ e.reg = reg)
    IN IF ws = << >> THEN -1 ELSE ws[Len(ws)].val

\* C16 as stated: whenever loopback_test() returns, the value it wrote last
\* to modem-control is 0x0B and the value it wrote last to interrupt-enable
\* is 0x01.
C16_LoopbackTemporary ==
    Returned("loopback_test") =>
        /\ LastWritten(trace, "modem_ctrl") = 11
        /\ LastWritten(trace, "int_en") = 1

\* --------------------------------------------------------------------- C17
\* C17: try_create() makes the eight writes of init before any access of the
\* loopback test, then the accesses of the loopback test; it returns Ok
\* exactly when the byte read back is 0xAE and Err otherwise.
C17_TryCreate ==
    op = "try_create" =>
        /\ \A i \in 1 .. Len(trace) : i <= 8 => trace[i] = BringUp[i]
        /\ pc = "done" =>
              /\ Len(trace) >= 12
              /\ SubSeq(trace, 9, 11) =
                    << [k |-> "w", reg |-> "int_en", val |-> 0],
                       [k |-> "w", reg |-> "modem_ctrl", val |-> 30],
                       [k |-> "w", reg |-> "data", val |-> 174] >>
              /\ trace[12].k = "r" /\ trace[12].reg = "data"
              /\ result.tag \in {"Ok", "Err"}
              /\ result.tag = "Ok" <=> trace[12].val = 174
              /\ result.tag = "Ok" =>
                    SubSeq(trace, 13, Len(trace)) =
                        << [k |-> "w", reg |-> "modem_ctrl", val |-> 11],
                           [k |-> "w", reg |-> "int_en", val |-> 1] >>
              /\ result.tag = "Err" => Len(trace) = 12

C17_Witness ==
    /\ Returned("try_create") /\ result.tag = "Ok"
    /\ Len(trace) = 14 /\ trace[12] = [k |-> "r", reg |-> "data", val |-> 174]

\* --------------------------------------------------------------------- C18
\* C18: the line status is never cached.  In every trace of send, send_raw,
\* try_send_raw, receive and try_receive, at every moment of the call, each
\* access to the data register directly follows a line-status read that
\* showed the awaited readiness bit set (so no two data accesses are
\* adjacent), and send(0x08) makes three such reads, one before each of its
\* three writes.
C18_NeverCached ==
    op \in TxOps \cup RxOps =>
        /\ DataOnlyWhenReady
        /\ \A i \in 1 .. Len(trace) - 1 :
              ~(trace[i].reg = "data" /\ trace[i + 1].reg = "data")
        /\ Len(AccessesOf(trace, "data")) <=
              Len(SelectSeq(trace, LAMBDA e : e.k = "r" /\ e.reg = "line_sts"
                                              /\ Bit(e.val, ReadyBit)))
        /\ (Returned("send") /\ arg = 8) =>
              /\ Len(AccessesOf(trace, "data")) = 3
              /\ \A i \in 1 .. Len(trace) :
                    trace[i].reg = "data" => LsrSet(trace, i - 1, 5)

C18_Witness ==
    /\ Returned("send") /\ variant = "generic" /\ arg = 8
    /\ trace = << [k |-> "r", reg |-> "line_sts", val |-> 32],
                  [k |-> "w", reg |-> "data", val |-> 8],
                  [k |-> "r", reg |-> "line_sts", val |-> 255],
                  [k |-> "w", reg |-> "data", val |-> 32],
                  [k |-> "r", reg |-> "line_sts", val |-> 32],
                  [k |-> "w", reg |-> "data", val |-> 8] >>

\* --------------------------------------------------------------------- C19
\* The bytes the transmitter has accepted: those sent and the one held.
Accepted == wire \o thr

\* The values of the data writes of an access trace, in order.
WrittenBytes(t) == [i \in 1 .. Len(Writes(t)) |-> Writes(t)[i].val]

\* C19: with the transmitter of the hardware behind the registers, a single
\* owner's send / send_raw / try_send_raw calls write the data register only
\* while output-empty is set, and the bytes the transmitter accepted are the
\* raw bytes of the calls that succeeded, in call order (followed, during a
\* call, by what it has written so far): none lost, duplicated or overwritten.
C19_Transmit ==
    /\ (pc = "data" /\ op \in TxOps) => thr = << >>
    /\ Len(thr) <= 1
    /\ Accepted = IF pc \in {"idle", "done"} THEN log
                  ELSE log \o WrittenBytes(trace)

C19_Witness ==
    /\ variant = "port" /\ Returned("send") /\ arg = 10
    /\ log = << 65, 13, 10 >> /\ wire = << 65, 13 >> /\ thr = << 10 >>

\* --------------------------------------------------------------------- C20
\* C20: with the receiver of the hardware behind the registers, a single
\* owner's receive / try_receive calls read the data register only while a
\* received byte is there; the bytes returned so far, followed by those
\* still held by the hardware, are the bytes the hardware delivered, so the
\* returned bytes are a prefix of the delivered ones, each returned at most
\* once and in order; a would-block result has read no data register.
C20_Receive ==
    /\ (pc = "data" /\ op \in RxOps) => rxq # << >>
    /\ returned \o rxq = produced
    /\ Len(returned) <= Len(produced)
    /\ returned = SubSeq(produced, 1, Len(returned))
    /\ (Returned("try_receive") /\ result.tag = "Err") =>
          ReadsOf(trace, "data") = << >>

C20_Witness ==
    /\ Returned("receive") /\ result = [tag |-> "u8", val |-> 10]
    /\ produced = << 65, 10, 8 >> /\ returned = << 65, 10 >> /\ rxq = << 8 >>

\* --------------------------------------------------------------------- C21
\* The values returned by the reads of an access trace, in order.
ReadValues(t) ==
    LET rs == SelectSeq(t, LAMBDA e : e.k = "r")
    IN [i \in 1 .. Len(rs) |-> rs[i].val]

IsPrefix(p, t) == Len(p) <= Len(t) /\ p = SubSeq(t, 1, Len(p))

\* The call in progress has so far done what x86_64.rs does on the same read
\* values, and has returned what x86_64.rs returns if it has returned.
LikeX86 ==
    LET x == x86_64_SerialPort_run(op, arg, ReadValues(trace))
    IN /\ IsPrefix(trace, x.acc)
       /\ pc = "done" => (x.done /\ trace = x.acc /\ result = x.res)

\* C21 as stated: every blocking call built on retrying try_send_raw /
\* try_receive (send, send_raw, receive of uart_16550.rs, mmio.rs, port.rs)
\* makes, for every argument and every sequence of values read, the register
\* accesses x86_64.rs makes and returns what it returns.
C21_Original ==
    (variant # "x86_64" /\ op \in Blocking) => LikeX86

\* C21 amended: the same, except for port.rs's send(0x0A).
C21_Equivalent ==
    (variant # "x86_64" /\ op \in Blocking
        /\ ~(variant = "port" /\ op = "send" /\ arg = 10)) => LikeX86

C21_Witness ==
    /\ variant = "generic" /\ Returned("send") /\ arg = 127 /\ polls = 2
    /\ LikeX86
    /\ Len(trace) = 8

\* --------------------------------------------------------------------- C22
\* The configuration init() leaves behind.
Configured ==
    [ier |-> 1, lcr |-> 3, fcr |-> 199, mcr |-> 11, dll |-> 3, dlm |-> 0]

\* The last access made by the call in progress.
LastAccess == trace[Len(trace)]

\* C22: on hardware where offsets 0 and 1 address the divisor latch while
\* bit 7 of line control is set, init() reads no register, writes the
\* divisor bytes 0x03 (offset 0) and 0x00 (offset 1) only while that bit is
\* set, so that they land in the latch, writes the final int_en <- 0x01 only
\* after the bit is cleared, so that it lands in interrupt enable, and,
\* whatever the registers held before, returns with divisor 0x0003, line
\* control 0x03, FIFO control 0xC7, modem control 0x0B and interrupt enable
\* 0x01 (a second init() ends in the same state).
C22_InitConfigures ==
    (op = "init" /\ trace # << >>) =>
        /\ \A i \in 1 .. Len(trace) : trace[i].k = "w"
        /\ LastAccess.reg = "data" =>
               /\ LastAccess.val = 3
               /\ Dlab(regs)
               /\ regs.dll = 3
        /\ (LastAccess.reg = "int_en" /\ Len(trace) > 1 /\ LastAccess.val = 0) =>
               /\ Dlab(regs)
               /\ regs.dlm = 0
               /\ regs.dll = 3
        /\ (LastAccess.reg = "int_en" /\ LastAccess.val # 0) =>
               /\ LastAccess.val = 1
               /\ ~Dlab(regs)
               /\ regs.ier = 1
               /\ pc = "done"
        /\ pc = "done" => regs = Configured

C22_Witness ==
    /\ Returned("init")
    /\ variant = "mmio"
    /\ inited
    /\ Len(trace) = 8
    /\ regs = Configured

\* --------------------------------------------------------------------- C23
\* The input and output operations.
IoOps == {"send", "send_raw", "try_send_raw", "receive", "try_receive", "write_str"}

\* The registers that hold init()'s configuration, and line status.
FrameRegisters == {"int_en", "fifo_ctrl", "line_ctrl", "modem_ctrl", "line_sts"}

\* No access of t is a write to one of the frame registers.
WritesOnlyData(t) ==
    \A i \in 1 .. Len(t) : t[i].k = "w" => t[i].reg \notin FrameRegisters

\* C23: once init() has returned, whatever sequence of send, send_raw,
\* try_send_raw, receive, try_receive and write_str calls follows, none of
\* them writes int_en, fifo_ctrl, line_ctrl, modem_ctrl or line_sts, and the
\* register file keeps the configuration init() established.
C23_ConfigurationKept ==
    (inited /\ op # "init") =>
        /\ regs = Configured
        /\ op \in IoOps => (WritesOnlyData(trace) /\ WritesOnlyData(wtrace))

C23_Witness ==
    /\ inited
    /\ Returned("write_str")
    /\ variant = "port"
    /\ str = << 10, 65 >>
    /\ Len(Writes(trace)) = 3
    /\ regs = Configured

\* --------------------------------------------------------------------- C24
\* Only the first context has used the device so far.
SingleOwner == other.calls = 0

\* C24: the readiness check and the data access are separate steps with no
\* lock around them.  Each context writes the data register only after its
\* own line-status read showed output-empty; as long as a single owner uses
\* the device, output-empty is still set when the write happens and no byte
\* in the holding register is overwritten.  (With a second context on the
\* same registers the state of C24_Race is reachable.)
C24_SingleOwnerSafe ==
    /\ (pc = "data" /\ op \in TxOps) => Bit(seen, 5)
    /\ other.pc = "data" => Bit(other.seen, 5)
    /\ SingleOwner =>
          /\ (pc = "data" /\ op \in TxOps) => thr = << >>
          /\ lost = << >>

\* Both contexts saw output-empty set; the second wrote its byte, and the
\* first then wrote over it on the strength of the readiness it had seen.
C24_Race ==
    /\ ~SingleOwner
    /\ Returned("try_send_raw") /\ result.tag = "Ok" /\ arg = 65
    /\ Bit(seen, 5) /\ Bit(other.seen, 5)
    /\ other.pc = "idle"
    /\ wire = << >>
    /\ lost = << 66 >>
    /\ thr = << 65 >>

\* With two contexts, no byte in the holding register is overwritten.
C24_NoOverwrite == lost = << >>

====
